---- MODULE Spec2Model ----
(***************************************************************************)
(* A model of eth_async: the text-signature parser and the signature       *)
(* lookup of contracts.py, the transaction-parameter completion,           *)
(* submission and token approval of transactions.py, the receipt wait,     *)
(* and TokenAmount of models.py.                                           *)
(*                                                                         *)
(* Texts are sequences of one-character strings, so that the string        *)
(* operations of the code (split, replace, slicing, membership) are        *)
(* computed character by character.                                        *)
(***************************************************************************)
EXTENDS Integers, Sequences, FiniteSets, TLC

VARIABLES
    \* ---- Contracts.parse_function_to_abi (contracts.py) ----
    text_signature,   \* the argument of parse_function_to_abi
    shape,            \* the caller's intent: the name and arguments the text was written from
    parse_pc,         \* position of the call: "call", "extract", "returned", "raised"
    name,             \* local of _parse_signature
    sign,             \* local of _parse_signature / _extract_tuples
    tuples,           \* local of _extract_tuples
    function          \* the returned ABI dictionary (NoFunction before the return)

parser_vars == <<text_signature, shape, parse_pc, name, sign, tuples, function>>

VARIABLES
    \* ---- the client and the node it talks to ----
    network,          \* client.network: its chain_id and tx_type
    tx_count,         \* the node's transaction count of the account (mined transactions)
    node_pool,        \* nonces of the raw transactions the node accepted, in order
    \* ---- one call of auto_add_params or sign_and_send_transaction ----
    op,               \* the method called: "none", "auto_add_params", "sign_and_send_transaction"
    tx_pc,            \* position of the call
    input_params,     \* the tx_params dictionary as the caller passed it
    tx_params,        \* the tx_params dictionary being completed
    signed_tx,        \* <<>> or <<the dictionary that was signed>>
    submissions,      \* send_raw_transaction requests made by this call
    tx_result,        \* <<>> or <<the Tx object returned>>
    tx_error,         \* the exception that reached the caller, "none" if none
    base_fee,         \* local of get_max_fee_per_gas: <<>> or <<the base fee in Wei>>
    calls             \* calls made so far

client_vars == <<network, tx_count, node_pool>>
call_vars == <<op, tx_pc, input_params, tx_params, signed_tx, submissions,
               tx_result, tx_error, base_fee, calls>>
tx_vars == <<client_vars, call_vars>>

VARIABLES
    \* ---- one call of wait_for_receipt; times are in tenths of a second ----
    wait_pc,          \* position of the call: "idle", "poll", "sleep", "returned", "raised"
    wait_via_tx,      \* TRUE when the call entered through Tx.wait_for_receipt
    timeout,          \* <<>> (no deadline) or <<the timeout handed to the node client>>
    poll_latency,     \* the poll latency handed to the node client
    elapsed,          \* time since the wait began
    polls,            \* get_transaction_receipt requests made against the deadline
    node_receipt,     \* <<>> or <<the receipt the node holds for the hash>>
    wait_result,      \* <<>> or <<the dictionary returned>>
    tx_receipt,       \* Tx.receipt: <<>> (None) or <<the receipt>>
    wait_error        \* the exception that reached the caller, "none" if none

wait_vars == <<wait_pc, wait_via_tx, timeout, poll_latency, elapsed, polls,
               node_receipt, wait_result, tx_receipt, wait_error>>

VARIABLES
    \* ---- one call of approve_token_spending ----
    approve_args      \* <<>> or <<the amount and gas_limit arguments of the call>>

approve_vars == <<approve_args>>

VARIABLES
    \* ---- a TokenAmount object and what was read from it (models.py) ----
    given,            \* <<>> or <<the human amount and decimals the object was first built from>>
    token_amount,     \* <<>> or <<the object: its _amount, decimals and wei>>
    Wei_read,         \* <<>> or <<the last value read from the property Wei>>
    Ether_read        \* <<>> or <<the last value read from the property Ether>>

amount_vars == <<given, token_amount, Wei_read, Ether_read>>

VARIABLES
    \* ---- one call of Contracts.get_signature ----
    sig_pc,           \* position of the call: "idle", "request", "returned", "raised"
    response,         \* <<>> or <<the answer of async_get>>
    sig_result        \* <<>> or <<the value returned>>

signature_vars == <<sig_pc, response, sig_result>>

vars == <<parser_vars, tx_vars, wait_vars, approve_vars, amount_vars, signature_vars>>

----------------------------------------------------------------------------
(* Bounds of the parser's inputs *)

MaxArgs == 2
MaxMembers == 2

----------------------------------------------------------------------------
(* Characters and words *)

LPAREN == "("
RPAREN == ")"
COMMA == ","

\* the literal 'tuple' of contracts.py lines 149 and 187
TupleWord == <<"t", "u", "p", "l", "e">>

address == <<"a", "d", "d", "r", "e", "s", "s">>
uint256 == <<"u", "i", "n", "t", "2", "5", "6">>

approve == <<"a", "p", "p", "r", "o", "v", "e">>
foo == <<"f", "o", "o">>
bar == <<"b", "a", "r">>

PrimitiveTypes == {address, uint256}
FunctionNames == {approve, foo, bar}

----------------------------------------------------------------------------
(* Python string operations *)

\* c in s
Contains(s, c) == \E i \in 1..Len(s) : s[i] = c

\* s.index(c, start), 1-based; 0 when c does not occur at or after from
IndexFrom(s, c, from) ==
    IF \E i \in from..Len(s) : s[i] = c
    THEN CHOOSE i \in from..Len(s) : s[i] = c /\ \A j \in from..(i - 1) : s[j] # c
    ELSE 0

\* s[:-1]
DropLast(s) == IF Len(s) = 0 THEN <<>> ELSE SubSeq(s, 1, Len(s) - 1)

\* s.split(sep): the pieces between the occurrences of the character sep
RECURSIVE Split(_, _)
Split(s, sep) ==
    LET i == IndexFrom(s, sep, 1)
    IN IF i = 0 THEN <<s>>
       ELSE <<SubSeq(s, 1, i - 1)>> \o Split(SubSeq(s, i + 1, Len(s)), sep)

\* s.split(sep, 1)
SplitOnce(s, sep) ==
    LET i == IndexFrom(s, sep, 1)
    IN IF i = 0 THEN <<s>>
       ELSE <<SubSeq(s, 1, i - 1), SubSeq(s, i + 1, Len(s))>>

\* old occurs in s at position i
OccursAt(s, old, i) ==
    /\ i + Len(old) - 1 <= Len(s)
    /\ \A k \in 1..Len(old) : s[i + k - 1] = old[k]

\* s.replace(old, new) for a non-empty old: every non-overlapping occurrence,
\* left to right
RECURSIVE Replace(_, _, _)
Replace(s, old, new) ==
    IF Len(s) = 0 THEN <<>>
    ELSE IF OccursAt(s, old, 1)
         THEN new \o Replace(SubSeq(s, Len(old) + 1, Len(s)), old, new)
         ELSE <<s[1]>> \o Replace(SubSeq(s, 2, Len(s)), old, new)

\* utils.strings.text_between(text, begin, end): the text after the first begin
\* up to the next end; the rest of the text when end does not follow
text_between(text, begin, end) ==
    LET b == IndexFrom(text, begin, 1)
        start == IF b = 0 THEN 1 ELSE b + 1
        e == IndexFrom(text, end, start)
        stop == IF e = 0 THEN Len(text) ELSE e - 1
        excerpt == SubSeq(text, start, stop)
    IN IF excerpt = text THEN <<>> ELSE excerpt

----------------------------------------------------------------------------
(* Contracts: the pure steps of the parser *)

\* _split_signature
_split_signature(text) ==
    LET split_result == SplitOnce(text, LPAREN)
    IN [name |-> split_result[1],
        sign |-> IF Len(split_result) > 1 THEN split_result[2] ELSE <<>>]

\* _get_inputs
_get_inputs(s) == IF s # <<>> THEN Split(s, COMMA) ELSE <<>>

\* one input of the ABI dictionary: {'type': t} or {'type': t, 'components': [...]}
PlainInput(t) == [type |-> t, has_components |-> FALSE, components |-> <<>>]
TupleInput(comps) ==
    [type |-> TupleWord, has_components |-> TRUE,
     components |-> [k \in 1..Len(comps) |-> PlainInput(comps[k])]]

\* the loop of _build_function_abi from the position n of inputs on, i tuples
\* consumed so far; ok is FALSE when tuples[i] is out of range (IndexError)
RECURSIVE BuildInputs(_, _, _, _)
BuildInputs(inputs, tups, n, i) ==
    IF n > Len(inputs) THEN [ok |-> TRUE, inputs |-> <<>>]
    ELSE IF inputs[n] = TupleWord
         THEN IF i + 1 > Len(tups) THEN [ok |-> FALSE, inputs |-> <<>>]
              ELSE LET rest == BuildInputs(inputs, tups, n + 1, i + 1)
                   IN [ok |-> rest.ok,
                       inputs |-> <<TupleInput(tups[i + 1])>> \o rest.inputs]
         ELSE LET rest == BuildInputs(inputs, tups, n + 1, i)
              IN [ok |-> rest.ok, inputs |-> <<PlainInput(inputs[n])>> \o rest.inputs]

\* _build_function_abi
_build_function_abi(nm, inputs, tups) ==
    LET built == BuildInputs(inputs, tups, 1, 0)
    IN [ok |-> built.ok,
        abi |-> [type |-> "function", name |-> nm, inputs |-> built.inputs,
                 outputs |-> <<PlainInput(uint256)>>]]

----------------------------------------------------------------------------
(* The texts handed to the parser *)

\* an argument as the caller means it: a primitive type, or a tuple of them
PrimArg(t) == [is_tuple |-> FALSE, types |-> <<t>>]
TupleArg(ts) == [is_tuple |-> TRUE, types |-> ts]

SeqsUpTo(S, n) == UNION {[1..k -> S] : k \in 0..n}

Args ==
    {PrimArg(t) : t \in PrimitiveTypes}
    \cup {TupleArg(ts) : ts \in SeqsUpTo(PrimitiveTypes, MaxMembers) \ {<<>>}}

ArgLists == SeqsUpTo(Args, MaxArgs)

RECURSIVE Join(_, _)
Join(pieces, sep) ==
    IF Len(pieces) = 0 THEN <<>>
    ELSE IF Len(pieces) = 1 THEN pieces[1]
         ELSE pieces[1] \o <<sep>> \o Join(Tail(pieces), sep)

RenderArg(a) ==
    IF a.is_tuple THEN <<LPAREN>> \o Join(a.types, COMMA) \o <<RPAREN>>
    ELSE a.types[1]

\* the text signature name(arg1,...,argn)
Render(nm, args) ==
    nm \o <<LPAREN>> \o Join([k \in 1..Len(args) |-> RenderArg(args[k])], COMMA)
       \o <<RPAREN>>

NoFunction == [ok |-> FALSE, abi |-> [type |-> "none", name |-> <<>>,
                                      inputs |-> <<>>, outputs |-> <<>>]]

----------------------------------------------------------------------------
(* Texts with several tuples, and texts of any form *)

\* the text of a tuple written as a member of another tuple
TupleText(ts) == <<LPAREN>> \o Join(ts, COMMA) \o <<RPAREN>>

\* largest number of arguments of a text with several tuples
MaxTupleArgs == 3

\* the arguments of such a text: a primitive, tuples of one and two members,
\* a tuple with a tuple as its last member
TupleCaseArgs ==
    {PrimArg(uint256), TupleArg(<<address>>), TupleArg(<<uint256>>),
     TupleArg(<<address, uint256>>), TupleArg(<<address, TupleText(<<uint256>>)>>)}

\* the characters of the texts of any form, and their largest length
Alphabet == {"f", "a", LPAREN, RPAREN, COMMA}
MaxTextLen == 5

\* iterations of the extraction loop that are followed
MaxIterations == 6

\* the number of occurrences of c in s
Count(s, c) == Cardinality({i \in 1..Len(s) : s[i] = c})

----------------------------------------------------------------------------
(* Contracts.parse_function_to_abi as a process *)

\* parse_function_to_abi is called with a text of several arguments, tuples
\* among them
InitTuples ==
    /\ \E args \in SeqsUpTo(TupleCaseArgs, MaxTupleArgs) \ {<<>>} :
          /\ shape = [name |-> foo, args |-> args]
          /\ text_signature = Render(foo, args)
    /\ parse_pc = "call"
    /\ name = <<>>
    /\ sign = <<>>
    /\ tuples = <<>>
    /\ function = NoFunction

\* parse_function_to_abi is called with any text
InitAnyText ==
    /\ text_signature \in SeqsUpTo(Alphabet, MaxTextLen)
    /\ shape = [name |-> <<>>, args |-> <<>>]
    /\ parse_pc = "call"
    /\ name = <<>>
    /\ sign = <<>>
    /\ tuples = <<>>
    /\ function = NoFunction

InitParser ==
    /\ \E nm \in FunctionNames, args \in ArgLists :
          /\ shape = [name |-> nm, args |-> args]
          /\ text_signature = Render(nm, args)
    /\ parse_pc = "call"
    /\ name = <<>>
    /\ sign = <<>>
    /\ tuples = <<>>
    /\ function = NoFunction

\* _parse_signature up to the loop of _extract_tuples
SplitSignature ==
    /\ parse_pc = "call"
    /\ LET r == _split_signature(text_signature)
       IN /\ name' = r.name
          /\ sign' = r.sign
    /\ tuples' = <<>>
    /\ parse_pc' = "extract"
    /\ UNCHANGED <<text_signature, shape, function, tx_vars, wait_vars,
                   approve_vars, amount_vars, signature_vars>>

\* one iteration of the while loop of _extract_tuples; the loop is followed
\* for MaxIterations iterations
ExtractTuple ==
    /\ parse_pc = "extract"
    /\ Contains(sign, LPAREN)
    /\ Len(tuples) < MaxIterations
    /\ LET tuple_ == text_between(DropLast(sign), LPAREN, RPAREN)
       IN /\ tuples' = Append(tuples, Split(tuple_, COMMA))
          /\ sign' = Replace(sign, <<LPAREN>> \o tuple_ \o <<RPAREN>>, TupleWord)
    /\ UNCHANGED <<text_signature, shape, parse_pc, name, function, tx_vars, wait_vars,
                   approve_vars, amount_vars, signature_vars>>

\* the loop's exit, _get_inputs and _build_function_abi
BuildFunctionAbi ==
    /\ parse_pc = "extract"
    /\ ~Contains(sign, LPAREN)
    /\ LET r == _build_function_abi(name, _get_inputs(sign), tuples)
       IN /\ function' = IF r.ok THEN r ELSE NoFunction
          /\ parse_pc' = IF r.ok THEN "returned" ELSE "raised"
    /\ UNCHANGED <<text_signature, shape, name, sign, tuples, tx_vars, wait_vars,
                   approve_vars, amount_vars, signature_vars>>

NextParser == SplitSignature \/ ExtractTuple \/ BuildFunctionAbi

----------------------------------------------------------------------------
(* Bounds of the node's answers and of the calls *)

MaxTxCount == 1
MaxPriorityFee == 3
MaxBaseFee == 19
MaxGasPrice == 31
MaxCalls == 1

----------------------------------------------------------------------------
(* The client, its networks and the node's answers *)

\* Networks.Goerli (tx_type 2) and Networks.BSC (tx_type 0)
Goerli == [chain_id |-> 5, tx_type |-> 2]
BSC == [chain_id |-> 56, tx_type |-> 0]
Networks == {Goerli, BSC}

\* client.account.address
account_address == "account"

\* an answer of the node: a value, or no value (None)
Value(v) == [is_none |-> FALSE, value |-> v]
None == [is_none |-> TRUE, value |-> 0]

\* a priority-fee quote taken while the network is congested
PriorityFeeSpike == 30

PriorityFeeAnswers ==
    {Value(v) : v \in {2, MaxPriorityFee}} \cup {Value(PriorityFeeSpike), None}
BaseFeeAnswers == {Value(v) : v \in {10, MaxBaseFee}} \cup {None}
GasPriceAnswers == {Value(v) : v \in 30..MaxGasPrice} \cup {None}
\* estimate_gas answers an estimate or raises (the transaction would revert)
GasEstimates == {21000}

----------------------------------------------------------------------------
(* tx_params dictionaries: functions from the keys present to their values *)

Fields == {"chainId", "nonce", "from", "gasPrice", "maxFeePerGas",
           "maxPriorityFeePerGas", "gas"}

\* the value a caller gives a field it supplies
CallerValue == [chainId |-> 1, nonce |-> 7, from |-> "other", gasPrice |-> 50,
                maxFeePerGas |-> 60, maxPriorityFeePerGas |-> 5, gas |-> 90000]

\* every partially filled dictionary a caller may pass
CallerParams == {[f \in present |-> CallerValue[f]] : present \in SUBSET Fields}

Has(d, k) == k \in DOMAIN d

\* d[k] = v
SetItem(d, k, v) == [f \in DOMAIN d \cup {k} |-> IF f = k THEN v ELSE d[f]]

\* d.get(k, default)
Get(d, k, default) == IF Has(d, k) THEN d[k] ELSE default

----------------------------------------------------------------------------
(* TokenAmount (models.py): _amount is kept in hundredths, the precision of   *)
(* the amounts built here (integers, and base_fee * 1.05)                     *)

Hundred == 100
\* 1.05 in hundredths
BaseFeeFactor == 105

\* TokenAmount(amount, wei=True) of an answer of the node: _to_decimal raises
\* TypeError on None (Decimal(None)); only InvalidOperation is caught there
TokenAmount(answer) ==
    IF answer.is_none
    THEN [raised |-> "TypeError", hundredths |-> 0]
    ELSE [raised |-> "none", hundredths |-> answer.value * Hundred]

\* TokenAmount.Wei with wei=True: int(self._amount) truncates
Wei(amount) == amount.hundredths \div Hundred

\* get_max_fee_per_gas from its two answers: the base fee is requested and
\* converted first, then the priority fee
get_max_fee_per_gas(base_answer, priority_answer) ==
    LET base == TokenAmount(base_answer)
        priority == TokenAmount(priority_answer)
    IN IF base.raised # "none" THEN base
       ELSE IF priority.raised # "none" THEN priority
       ELSE [raised |-> "none",
             hundredths |-> (Wei(priority) * 2) * Hundred + Wei(base) * BaseFeeFactor]

----------------------------------------------------------------------------
(* Transaction.auto_add_params and Transaction.sign_and_send_transaction *)

NoCall ==
    /\ op = "none"
    /\ tx_pc = "idle"
    /\ input_params = <<>>
    /\ tx_params = <<>>
    /\ signed_tx = <<>>
    /\ submissions = 0
    /\ tx_result = <<>>
    /\ tx_error = "none"
    /\ base_fee = <<>>
    /\ approve_args = <<>>

InitTx ==
    /\ network \in Networks
    /\ tx_count \in 0..MaxTxCount
    /\ node_pool = <<>>
    /\ calls = 0
    /\ NoCall

\* the exception e leaves the call
Raise(e) ==
    /\ tx_pc' = "raised"
    /\ tx_error' = e

\* a caller calls method m with the dictionary p
Call(m, p) ==
    /\ tx_pc = "idle"
    /\ calls < MaxCalls
    /\ calls' = calls + 1
    /\ op' = m
    /\ input_params' = p
    /\ tx_params' = p
    /\ tx_pc' = "chain_nonce_from"
    /\ UNCHANGED <<wait_vars, parser_vars, approve_vars, amount_vars, signature_vars,
                   client_vars, signed_tx, submissions, tx_result,
                   tx_error, base_fee>>

CallAutoAddParams == \E p \in CallerParams : Call("auto_add_params", p)

CallSignAndSend == \E p \in CallerParams : Call("sign_and_send_transaction", p)

\* AddChainIdNonceFrom with chainId assigned like nonce, whether or not the
\* caller supplied it
AddChainIdNonceFrom_ChainIdOverwritten ==
    /\ tx_pc = "chain_nonce_from"
    /\ tx_params' =
          SetItem(SetItem(SetItem(tx_params,
              "chainId", network.chain_id),
              "nonce", tx_count),
              "from", account_address)
    /\ tx_pc' = "fee"
    /\ UNCHANGED <<wait_vars, parser_vars, approve_vars, amount_vars, signature_vars,
                   client_vars, op, input_params, signed_tx,
                   submissions, tx_result, tx_error, base_fee, calls>>

\* AddChainIdNonceFrom with the assignment of 'from' left out
AddChainIdNonceFrom_WithoutFrom ==
    /\ tx_pc = "chain_nonce_from"
    /\ tx_params' =
          SetItem(SetItem(tx_params,
              "chainId", Get(tx_params, "chainId", network.chain_id)),
              "nonce", tx_count)
    /\ tx_pc' = "fee"
    /\ UNCHANGED <<wait_vars, parser_vars, approve_vars, amount_vars, signature_vars,
                   client_vars, op, input_params, signed_tx,
                   submissions, tx_result, tx_error, base_fee, calls>>

\* auto_add_params, lines 206 to 208: chainId, nonce (the node's transaction
\* count), from
AddChainIdNonceFrom ==
    /\ tx_pc = "chain_nonce_from"
    /\ tx_params' =
          SetItem(SetItem(SetItem(tx_params,
              "chainId", Get(tx_params, "chainId", network.chain_id)),
              "nonce", tx_count),
              "from", account_address)
    /\ tx_pc' = "fee"
    /\ UNCHANGED <<wait_vars, parser_vars, approve_vars, amount_vars, signature_vars,
                   client_vars, op, input_params, signed_tx,
                   submissions, tx_result, tx_error, base_fee, calls>>

\* line 211: maxPriorityFeePerGas from a priority-fee quote
AddMaxPriorityFee ==
    /\ tx_pc = "fee"
    /\ network.tx_type = 2
    /\ \E answer \in PriorityFeeAnswers :
          LET fee == TokenAmount(answer)
          IN IF fee.raised # "none"
             THEN Raise(fee.raised) /\ UNCHANGED tx_params
             ELSE /\ tx_params' = SetItem(tx_params, "maxPriorityFeePerGas", Wei(fee))
                  /\ tx_pc' = "max_fee"
                  /\ UNCHANGED tx_error
    /\ UNCHANGED <<wait_vars, parser_vars, approve_vars, amount_vars, signature_vars,
                   client_vars, op, input_params, signed_tx,
                   submissions, tx_result, base_fee, calls>>

\* line 212: maxFeePerGas from get_max_fee_per_gas, which asks the node for the
\* base fee and for the priority fee again
AddMaxFeePerGas ==
    /\ tx_pc = "max_fee"
    /\ \E base_answer \in BaseFeeAnswers, priority_answer \in PriorityFeeAnswers :
          LET fee == get_max_fee_per_gas(base_answer, priority_answer)
          IN /\ base_fee' = IF base_answer.is_none THEN <<>>
                            ELSE <<Wei(TokenAmount(base_answer))>>
             /\ IF fee.raised # "none"
                THEN Raise(fee.raised) /\ UNCHANGED tx_params
                ELSE /\ tx_params' = SetItem(tx_params, "maxFeePerGas", Wei(fee))
                     /\ tx_pc' = "gas"
                     /\ UNCHANGED tx_error
    /\ UNCHANGED <<wait_vars, parser_vars, approve_vars, amount_vars, signature_vars,
                   client_vars, op, input_params, signed_tx,
                   submissions, tx_result, calls>>

\* line 214: gasPrice on a network that is not of type 2
AddGasPrice ==
    /\ tx_pc = "fee"
    /\ network.tx_type # 2
    /\ \E answer \in GasPriceAnswers :
          LET price == TokenAmount(answer)
          IN IF price.raised # "none"
             THEN Raise(price.raised) /\ UNCHANGED tx_params
             ELSE /\ tx_params' = SetItem(tx_params, "gasPrice", Wei(price))
                  /\ tx_pc' = "gas"
                  /\ UNCHANGED tx_error
    /\ UNCHANGED <<wait_vars, parser_vars, approve_vars, amount_vars, signature_vars,
                   client_vars, op, input_params, signed_tx,
                   submissions, tx_result, base_fee, calls>>

\* lines 216 to 218: gas from the node's estimate, then the return of
\* auto_add_params
AddGas ==
    /\ tx_pc = "gas"
    /\ \/ \E estimate \in GasEstimates :
             /\ tx_params' = SetItem(tx_params, "gas", Wei(TokenAmount(Value(estimate))))
             /\ tx_pc' = IF op = "auto_add_params" THEN "returned" ELSE "sign"
             /\ UNCHANGED tx_error
       \/ Raise("ContractLogicError") /\ UNCHANGED tx_params
    /\ UNCHANGED <<wait_vars, parser_vars, approve_vars, amount_vars, signature_vars,
                   client_vars, op, input_params, signed_tx,
                   submissions, tx_result, base_fee, calls>>

\* SignTransaction with the caller's dictionary signed instead of the completed one
SignTransaction_SignsInput ==
    /\ tx_pc = "sign"
    /\ \/ /\ signed_tx' = <<input_params>>
          /\ tx_pc' = "send"
          /\ UNCHANGED tx_error
       \/ Raise("TypeError") /\ UNCHANGED signed_tx
    /\ UNCHANGED <<wait_vars, parser_vars, approve_vars, amount_vars, signature_vars,
                   client_vars, op, input_params, tx_params,
                   submissions, tx_result, base_fee, calls>>

\* sign_and_send_transaction, line 232: the account signs the dictionary, or
\* the signer rejects it
SignTransaction ==
    /\ tx_pc = "sign"
    /\ \/ /\ signed_tx' = <<tx_params>>
          /\ tx_pc' = "send"
          /\ UNCHANGED tx_error
       \/ Raise("TypeError") /\ UNCHANGED signed_tx
    /\ UNCHANGED <<wait_vars, parser_vars, approve_vars, amount_vars, signature_vars,
                   client_vars, op, input_params, tx_params,
                   submissions, tx_result, base_fee, calls>>

\* the Tx object of line 234: the hash the node answered, and the dictionary
Tx(tx_hash, params) == [hash |-> tx_hash, params |-> params]

\* SendRawTransaction with a rejected request tried again instead of raised
SendRawTransaction_Retrying ==
    /\ tx_pc = "send"
    /\ submissions' = submissions + 1
    /\ \/ /\ node_pool' = Append(node_pool, signed_tx[1]["nonce"])
          /\ tx_result' = <<Tx(Len(node_pool) + 1, tx_params)>>
          /\ tx_pc' = "returned"
          /\ UNCHANGED tx_error
       \/ UNCHANGED <<tx_pc, tx_error, node_pool, tx_result>>
    /\ UNCHANGED <<wait_vars, parser_vars, approve_vars, amount_vars, signature_vars,
                   network, tx_count, op, input_params, tx_params,
                   signed_tx, base_fee, calls>>

\* lines 233 and 234: one send_raw_transaction request; the node accepts the
\* raw transaction and answers its hash, or rejects it and the error is raised
SendRawTransaction ==
    /\ tx_pc = "send"
    /\ submissions' = submissions + 1
    /\ \/ /\ node_pool' = Append(node_pool, signed_tx[1]["nonce"])
          /\ tx_result' = <<Tx(Len(node_pool) + 1, tx_params)>>
          /\ tx_pc' = "returned"
          /\ UNCHANGED tx_error
       \/ Raise("ValueError") /\ UNCHANGED <<node_pool, tx_result>>
    /\ UNCHANGED <<wait_vars, parser_vars, approve_vars, amount_vars, signature_vars,
                   network, tx_count, op, input_params, tx_params,
                   signed_tx, base_fee, calls>>

\* the caller has the result or the exception; the call is over
Finish ==
    /\ tx_pc \in {"returned", "raised"}
    /\ op' = "none"
    /\ tx_pc' = "idle"
    /\ input_params' = <<>>
    /\ tx_params' = <<>>
    /\ signed_tx' = <<>>
    /\ submissions' = 0
    /\ tx_result' = <<>>
    /\ tx_error' = "none"
    /\ base_fee' = <<>>
    /\ approve_args' = <<>>
    /\ UNCHANGED <<wait_vars, parser_vars, amount_vars, signature_vars, client_vars, calls>>

\* the node mines the pending transaction that carries the account's next nonce
Mine ==
    /\ \E k \in 1..Len(node_pool) : node_pool[k] = tx_count
    /\ tx_count' = tx_count + 1
    /\ UNCHANGED <<wait_vars, parser_vars, approve_vars, amount_vars, signature_vars,
                   network, node_pool, call_vars>>

NextTx ==
    \/ CallAutoAddParams
    \/ CallSignAndSend
    \/ AddChainIdNonceFrom
    \/ AddMaxPriorityFee
    \/ AddMaxFeePerGas
    \/ AddGasPrice
    \/ AddGas
    \/ SignTransaction
    \/ SendRawTransaction
    \/ Finish
    \/ Mine

----------------------------------------------------------------------------
(* One client sending one transaction after another *)

\* the number of sign_and_send_transaction calls of the sequence
MaxSends == 2

\* the next call of the sequence: sign_and_send_transaction with a dictionary
\* that leaves chainId, nonce, from, the fees and gas to auto_add_params
CallSignAndSendNext ==
    /\ tx_pc = "idle"
    /\ calls < MaxSends
    /\ calls' = calls + 1
    /\ op' = "sign_and_send_transaction"
    /\ \E p \in {q \in CallerParams : DOMAIN q = {}} :
          input_params' = p /\ tx_params' = p
    /\ tx_pc' = "chain_nonce_from"
    /\ UNCHANGED <<wait_vars, parser_vars, approve_vars, amount_vars, signature_vars,
                   client_vars, signed_tx, submissions, tx_result,
                   tx_error, base_fee>>

NextSends ==
    \/ CallSignAndSendNext
    \/ AddChainIdNonceFrom
    \/ AddMaxPriorityFee
    \/ AddMaxFeePerGas
    \/ AddGasPrice
    \/ AddGas
    \/ SignTransaction
    \/ SendRawTransaction
    \/ Finish
    \/ Mine

----------------------------------------------------------------------------
(* TokenAmount (models.py)                                                 *)
(*                                                                         *)
(* A number a caller writes is [kind, num, exp]: the decimal literal       *)
(* num / 10^exp written as an int (exp = 0), as a string or as a float.    *)
(* A Decimal is [num, exp, err]: the value num / 10^exp when err = 0, and  *)
(* a value a little below (err = -1) or above (err = 1) it, by less than   *)
(* any unit the model scales by, when it came from a float.                *)

\* largest number of fractional digits of an amount and of decimals
MaxDecimals == 2
\* largest numerator of a written amount: 0.00 to 0.12, 0.0 to 1.2, 0 to 12
MaxNum == 12

\* bits of the significand of a float
Mantissa == 53

RECURSIVE HalvingsDown(_, _)
\* the largest e >= 0 with den * 2^e <= n, for n >= den
HalvingsDown(n, den) == IF 2 * den <= n THEN 1 + HalvingsDown(n, 2 * den) ELSE 0

RECURSIVE DoublingsUp(_, _)
\* the smallest s >= 0 with n * 2^s >= den, for n >= 1
DoublingsUp(n, den) == IF n >= den THEN 0 ELSE 1 + DoublingsUp(2 * n, den)

\* the binary exponent of num / 10^exp: the e with 2^e <= num / 10^exp < 2^(e+1)
BinaryExponent(num, exp) ==
    IF num >= 10 ^ exp THEN HalvingsDown(num, 10 ^ exp) ELSE 0 - DoublingsUp(num, 10 ^ exp)

RECURSIVE PowMod(_, _, _)
\* b^k modulo m
PowMod(b, k, m) == IF k = 0 THEN 1 % m ELSE (b * PowMod(b, k - 1, m)) % m

\* The float written as num / 10^exp is the multiple of 2^(e - 52) nearest to
\* it, e its binary exponent. num * 2^(52 - e) / 10^exp leaves the remainder r:
\* the float is the literal itself when r = 0, below it when r is less than
\* half of 10^exp (rounded down), above it otherwise. r is never exactly half.
FloatError(num, exp) ==
    IF num = 0 THEN 0
    ELSE LET m == 10 ^ exp
             k == (Mantissa - 1) - BinaryExponent(num, exp)
             r == ((num % m) * PowMod(2, k, m)) % m
         IN IF r = 0 THEN 0 ELSE IF 2 * r < m THEN 0 - 1 ELSE 1

\* _to_decimal, line 42: Decimal(amount) is exact: the written value of an int
\* or a string, the binary value of a float
_to_decimal(amount) ==
    [num |-> amount.num, exp |-> amount.exp,
     err |-> IF amount.kind = "float" THEN FloatError(amount.num, amount.exp) ELSE 0]

\* TokenAmount.__init__, lines 24 to 26
TokenAmount__init__(amount, decimals, wei) ==
    [_amount |-> _to_decimal(amount), decimals |-> decimals, wei |-> wei]

\* int(d) of a Decimal d >= 0: the digits before the point
DecimalToInt(d) ==
    LET q == d.num \div (10 ^ d.exp)
    IN IF d.num % (10 ^ d.exp) = 0 /\ d.err < 0 THEN q - 1 ELSE q

\* TokenAmount.Wei, line 31
TokenAmount_Wei(self) ==
    IF ~self.wei
    THEN DecimalToInt([num |-> self._amount.num * 10 ^ self.decimals,
                       exp |-> self._amount.exp, err |-> self._amount.err])
    ELSE DecimalToInt(self._amount)

\* TokenAmount.Ether, line 36
TokenAmount_Ether(self) ==
    IF self.wei
    THEN [num |-> self._amount.num, exp |-> self._amount.exp + self.decimals,
          err |-> self._amount.err]
    ELSE self._amount

\* an int written by a caller
IntAmount(v) == [kind |-> "int", num |-> v, exp |-> 0]

\* the amounts a caller writes: ints, and decimal literals as strings and floats
Amounts ==
    {IntAmount(v) : v \in 0..MaxNum}
        \cup [kind : {"str", "float"}, num : 0..MaxNum, exp : 1..MaxDecimals]

\* TokenAmount(x, decimals) of a human amount x
NewTokenAmount ==
    /\ token_amount = <<>>
    /\ \E x \in Amounts, decimals \in 0..MaxDecimals :
          /\ given' = <<[amount |-> x, decimals |-> decimals, wei |-> FALSE]>>
          /\ token_amount' = <<TokenAmount__init__(x, decimals, FALSE)>>
    /\ UNCHANGED <<Wei_read, Ether_read>>
    /\ UNCHANGED <<parser_vars, tx_vars, wait_vars, approve_vars, signature_vars>>

\* TokenAmount(v, decimals, wei=True) of an integer v of smallest units
NewTokenAmountInWei ==
    /\ token_amount = <<>>
    /\ \E v \in 0..MaxNum, decimals \in 0..MaxDecimals :
          /\ given' = <<[amount |-> IntAmount(v), decimals |-> decimals, wei |-> TRUE]>>
          /\ token_amount' = <<TokenAmount__init__(IntAmount(v), decimals, TRUE)>>
    /\ UNCHANGED <<Wei_read, Ether_read>>
    /\ UNCHANGED <<parser_vars, tx_vars, wait_vars, approve_vars, signature_vars>>

\* the property Wei is read
ReadWei ==
    /\ token_amount # <<>>
    /\ Wei_read = <<>>
    /\ Wei_read' = <<TokenAmount_Wei(token_amount[1])>>
    /\ UNCHANGED <<given, token_amount, Ether_read>>
    /\ UNCHANGED <<parser_vars, tx_vars, wait_vars, approve_vars, signature_vars>>

\* the way back: TokenAmount(w, decimals, wei=True) of the integer w that was
\* read from Wei of the object built from the human amount
NewTokenAmountFromWei ==
    /\ given # <<>> /\ ~given[1].wei
    /\ token_amount # <<>> /\ ~token_amount[1].wei
    /\ Wei_read # <<>>
    /\ token_amount' = <<TokenAmount__init__(IntAmount(Wei_read[1]), given[1].decimals, TRUE)>>
    /\ UNCHANGED <<given, Wei_read, Ether_read>>
    /\ UNCHANGED <<parser_vars, tx_vars, wait_vars, approve_vars, signature_vars>>

\* the property Ether is read
ReadEther ==
    /\ token_amount # <<>>
    /\ Ether_read = <<>>
    /\ Ether_read' = <<TokenAmount_Ether(token_amount[1])>>
    /\ UNCHANGED <<given, token_amount, Wei_read>>
    /\ UNCHANGED <<parser_vars, tx_vars, wait_vars, approve_vars, signature_vars>>

NextAmount ==
    \/ NewTokenAmount
    \/ NewTokenAmountInWei
    \/ ReadWei
    \/ NewTokenAmountFromWei
    \/ ReadEther

----------------------------------------------------------------------------
(* Transaction.approve_token_spending *)

\* An argument of the call: None, a number the caller writes, or a
\* TokenAmount object.
PyNone == [kind |-> "None", value |-> <<>>]
Number(x) == [kind |-> "number", value |-> <<x>>]
Object(o) == [kind |-> "TokenAmount", value |-> <<o>>]

\* bool(v) of an argument: None and a zero int or float are false, an object
\* of a class without __bool__ and __len__, as TokenAmount, is true
Truthy(v) ==
    CASE v.kind = "None" -> FALSE
      [] v.kind = "number" -> v.value[1].num # 0
      [] OTHER -> TRUE

\* A uint256 of the approve call: an amount of the model, or
\* CommonValues.InfinityInt = 2^256 - 1, which no amount of the model reaches
Uint(v) == [infinity |-> FALSE, value |-> v]
InfinityInt == [infinity |-> TRUE, value |-> 0]

\* largest whole amount given to approve_token_spending
MaxApprove == 2

\* a gas limit a caller gives, and the node's estimate differs from it
CallerGasLimit == 50000

\* the decimals() answers of the token contract
TokenDecimals == 1..MaxDecimals

\* the amounts given: none, whole numbers, halves written as floats (their
\* doubles are exact), and TokenAmount objects of whole numbers
ApproveAmounts ==
    {PyNone}
        \cup {Number(IntAmount(v)) : v \in 0..MaxApprove}
        \cup {Number([kind |-> "float", num |-> 5 * v, exp |-> 1]) : v \in 0..MaxApprove}
        \cup {Object(TokenAmount__init__(IntAmount(v), d, FALSE)) :
                 v \in 0..MaxApprove, d \in TokenDecimals}

\* the gas limits given: none, an int, a TokenAmount in Wei
GasLimits ==
    {PyNone, Number(IntAmount(CallerGasLimit)),
     Object(TokenAmount__init__(IntAmount(CallerGasLimit), 0, TRUE))}

\* _determine_approve_amount, lines 322 to 329; decimals is the answer of
\* get_decimals
_determine_approve_amount(amount, decimals) ==
    IF ~Truthy(amount) THEN InfinityInt
    ELSE IF amount.kind = "number"
    THEN Uint(TokenAmount_Wei(TokenAmount__init__(amount.value[1], decimals, FALSE)))
    ELSE Uint(TokenAmount_Wei(amount.value[1]))

\* _build_tx_approve_params, lines 350 to 364; nonce is the answer of
\* wallet.nonce()
_build_tx_approve_params(spender_address, amount, gas_limit, nonce) ==
    LET tx_args == [function |-> "approve", spender |-> spender_address, amount |-> amount]
        without_gas == [k \in {"nonce", "to", "data", "from"} |->
                           CASE k = "nonce" -> nonce
                             [] k = "to" -> "token"
                             [] k = "data" -> tx_args
                             [] OTHER -> account_address]
    IN IF Truthy(gas_limit)
       THEN SetItem(without_gas, "gas",
                IF gas_limit.kind = "number"
                THEN TokenAmount_Wei(TokenAmount__init__(gas_limit.value[1], 0, TRUE))
                ELSE TokenAmount_Wei(gas_limit.value[1]))
       ELSE without_gas

\* approve_token_spending, lines 301 to 307, up to the call of
\* sign_and_send_transaction with the dictionary built
CallApproveTokenSpending ==
    /\ tx_pc = "idle"
    /\ calls < MaxCalls
    /\ calls' = calls + 1
    /\ op' = "approve_token_spending"
    /\ \E amount \in ApproveAmounts, gas_limit \in GasLimits, decimals \in TokenDecimals :
          LET built == _build_tx_approve_params("spender",
                           _determine_approve_amount(amount, decimals), gas_limit, tx_count)
          IN /\ approve_args' = <<[amount |-> amount, gas_limit |-> gas_limit,
                                   decimals |-> decimals]>>
             /\ input_params' = built
             /\ tx_params' = built
    /\ tx_pc' = "chain_nonce_from"
    /\ UNCHANGED <<wait_vars, parser_vars, amount_vars, signature_vars, client_vars,
                   signed_tx, submissions, tx_result, tx_error, base_fee>>

NextApprove ==
    \/ CallApproveTokenSpending
    \/ AddChainIdNonceFrom
    \/ AddMaxPriorityFee
    \/ AddMaxFeePerGas
    \/ AddGasPrice
    \/ AddGas
    \/ SignTransaction
    \/ SendRawTransaction
    \/ Finish
    \/ Mine

----------------------------------------------------------------------------
(* Contracts.get_signature *)

\* largest number of results in an answer of the signature database
MaxResults == 3
\* largest created_at of a result; the times of the database are 1..MaxCreatedAt
MaxCreatedAt == 2

\* A result of the database: a dictionary whose keys created_at and
\* text_signature may be missing (<<>>).
Results ==
    [created_at : {<<>>} \cup {<<t>> : t \in 1..MaxCreatedAt},
     text_signature : {<<>>, <<"a()">>, <<"b()">>}]

\* What async_get gives: an exception (the request failed, the status or the
\* body was bad), a body that is no dictionary, a dictionary without
\* 'results', a dictionary whose 'results' is null, or one with a list of
\* results.
Responses ==
    [kind : {"exception", "not_a_dict", "no_results", "results_null"}, results : {<<>>}]
        \cup [kind : {"results"}, results : SeqsUpTo(Results, MaxResults)]

\* a value or the exception an expression ended with
Value_(v) == [raised |-> "none", value |-> v]
Raised(e) == [raised |-> e, value |-> <<>>]

\* line 72: response['results']
GetResults(r) ==
    CASE r.kind = "exception" -> Raised("ClientError")
      [] r.kind = "not_a_dict" -> Raised("TypeError")
      [] r.kind = "no_results" -> Raised("KeyError")
      [] r.kind = "results_null" -> Value_(<<>>)
      [] OTHER -> Value_(r.results)

\* s with x put behind the last element whose created_at is not greater
InsertByCreatedAt(s, x) ==
    LET before == {k \in 1..Len(s) : s[k].created_at[1] <= x.created_at[1]}
        n == IF before = {} THEN 0 ELSE CHOOSE k \in before : \A j \in before : j <= k
    IN SubSeq(s, 1, n) \o <<x>> \o SubSeq(s, n + 1, Len(s))

RECURSIVE SortByCreatedAt(_)
SortByCreatedAt(s) ==
    IF s = <<>> THEN <<>>
    ELSE InsertByCreatedAt(SortByCreatedAt(SubSeq(s, 1, Len(s) - 1)), s[Len(s)])

\* line 73: sorted(results, key=lambda result: result['created_at']); the key
\* of every result is taken first, and the sort is stable
SortedByCreatedAt(r, results) ==
    IF r.kind = "results_null" THEN Raised("TypeError")
    ELSE IF \E k \in 1..Len(results) : results[k].created_at = <<>> THEN Raised("KeyError")
    ELSE Value_(SortByCreatedAt(results))

\* line 73: [m['text_signature'] for m in ...]
TextSignatures(sorted) ==
    IF \E k \in 1..Len(sorted) : sorted[k].text_signature = <<>> THEN Raised("KeyError")
    ELSE Value_([k \in 1..Len(sorted) |-> sorted[k].text_signature[1]])

\* lines 71 to 73, the body of the try statement
LookUp(r) ==
    LET results == GetResults(r)
    IN IF results.raised # "none" THEN results
       ELSE LET sorted == SortedByCreatedAt(r, results.value)
            IN IF sorted.raised # "none" THEN sorted ELSE TextSignatures(sorted.value)

\* what get_signature returns: None, or a list of text signatures
NoSignatures == [is_none |-> TRUE, list |-> <<>>]
Signatures(l) == [is_none |-> FALSE, list |-> l]

\* get_signature is called and sends its request
CallGetSignature ==
    /\ sig_pc = "idle"
    /\ sig_pc' = "request"
    /\ UNCHANGED <<response, sig_result>>
    /\ UNCHANGED <<parser_vars, tx_vars, wait_vars, approve_vars, amount_vars>>

\* line 71: async_get ends
AsyncGet ==
    /\ sig_pc = "request"
    /\ \E r \in Responses : response' = <<r>>
    /\ sig_pc' = "answered"
    /\ UNCHANGED sig_result
    /\ UNCHANGED <<parser_vars, tx_vars, wait_vars, approve_vars, amount_vars>>

\* ReturnSignatures without the except clause
ReturnSignatures_Unguarded ==
    /\ sig_pc = "answered"
    /\ LET found == LookUp(response[1])
       IN IF found.raised # "none"
          THEN sig_pc' = "raised" /\ UNCHANGED sig_result
          ELSE sig_pc' = "returned" /\ sig_result' = <<Signatures(found.value)>>
    /\ UNCHANGED response
    /\ UNCHANGED <<parser_vars, tx_vars, wait_vars, approve_vars, amount_vars>>

\* lines 70 to 75: the try statement; every Exception of its body ends in
\* return None
ReturnSignatures ==
    /\ sig_pc = "answered"
    /\ LET found == LookUp(response[1])
       IN sig_result' = <<IF found.raised # "none" THEN NoSignatures
                          ELSE Signatures(found.value)>>
    /\ sig_pc' = "returned"
    /\ UNCHANGED response
    /\ UNCHANGED <<parser_vars, tx_vars, wait_vars, approve_vars, amount_vars>>

NextSignature == CallGetSignature \/ AsyncGet \/ ReturnSignatures

----------------------------------------------------------------------------
(* Claims about the signature parser *)

ParseEnded == parse_pc \in {"returned", "raised"}

\* the inputs the caller means: one {'type': t} per primitive argument, one
\* tuple input with its members as components per tuple argument
IntendedInput(a) == IF a.is_tuple THEN TupleInput(a.types) ELSE PlainInput(a.types[1])
IntendedInputs == [k \in 1..Len(shape.args) |-> IntendedInput(shape.args[k])]

OnlyPrimitives == \A k \in 1..Len(shape.args) : ~shape.args[k].is_tuple

\* C1: for a text name(t1,...,tn), n >= 1, of primitive types,
\* parse_function_to_abi returns the name and the inputs {type: t1}, ...,
\* {type: tn} in textual order, each type as written.
C1_PrimitiveInputsAsWritten ==
    (ParseEnded /\ Len(shape.args) >= 1 /\ OnlyPrimitives)
        => /\ parse_pc = "returned"
           /\ function.abi.name = shape.name
           /\ function.abi.inputs = IntendedInputs

\* C2: for a text name() parse_function_to_abi returns the name and an empty
\* list of inputs.
C2_NoArgumentsNoInputs ==
    (ParseEnded /\ Len(shape.args) = 0)
        => /\ parse_pc = "returned"
           /\ function.abi.name = shape.name
           /\ function.abi.inputs = <<>>

\* C3: for a text name((t1,...,tk)) parse_function_to_abi returns exactly one
\* input, of type tuple, with the components {type: t1}, ..., {type: tk} in
\* order.
C3_SingleTupleInput ==
    (ParseEnded /\ Len(shape.args) = 1 /\ shape.args[1].is_tuple)
        => /\ parse_pc = "returned"
           /\ Len(function.abi.inputs) = 1
           /\ function.abi.inputs[1] = TupleInput(shape.args[1].types)

----------------------------------------------------------------------------
(* Claims about the completion of tx_params *)

\* auto_add_params has returned tx_params (to its caller, or to line 231 of
\* sign_and_send_transaction)
Completed ==
    \/ op = "auto_add_params" /\ tx_pc = "returned"
    \/ op = "sign_and_send_transaction" /\ tx_pc = "sign"

Eip1559 == network.tx_type = 2

\* the fee fields of the network's fee model, and those of the other model
FeeFields ==
    IF Eip1559 THEN {"maxFeePerGas", "maxPriorityFeePerGas"} ELSE {"gasPrice"}
OtherFeeFields ==
    IF Eip1559 THEN {"gasPrice"} ELSE {"maxFeePerGas", "maxPriorityFeePerGas"}

RequiredFields == {"chainId", "nonce", "from", "gas"} \cup FeeFields

\* C4: when the input dictionary has a nonce, the returned dictionary carries
\* that nonce, whatever transaction count the node reports.
C4_CallerNonceTrusted ==
    (Completed /\ Has(input_params, "nonce"))
        => tx_params["nonce"] = input_params["nonce"]

\* C5: completion is idempotent: when the input dictionary has chainId, nonce,
\* from, the fee fields of the network's fee model and gas, each of them has
\* its input value in the returned dictionary.
C5_CompletionIdempotent ==
    (Completed /\ RequiredFields \subseteq DOMAIN input_params)
        => \A f \in RequiredFields : tx_params[f] = input_params[f]

\* C6 as stated: the returned dictionary has chainId, nonce, from, gas and the
\* fee fields of exactly one fee model, the network's, for every input.
C6_ExactlyOneFeeModel ==
    Completed
        => /\ RequiredFields \subseteq DOMAIN tx_params
           /\ \A f \in OtherFeeFields : ~Has(tx_params, f)

\* C6 as amended: the returned dictionary has chainId, nonce, from, gas and the
\* fee fields of the network's fee model; a fee field of the other model is in
\* it exactly when the caller's input had it, with the caller's value.
C6_RequiredFieldsPresent ==
    Completed
        => /\ RequiredFields \subseteq DOMAIN tx_params
           /\ \A f \in OtherFeeFields :
                 /\ Has(tx_params, f) <=> Has(input_params, f)
                 /\ Has(tx_params, f) => tx_params[f] = input_params[f]

\* a completion of a partially filled input that carried a fee field of the
\* other model
C6_Witness ==
    /\ Completed
    /\ Eip1559
    /\ Has(input_params, "gasPrice")
    /\ ~Has(input_params, "nonce")
    /\ ~Has(input_params, "maxFeePerGas")
    /\ RequiredFields \subseteq DOMAIN tx_params

\* C7: on an EIP-1559 network the returned dictionary satisfies
\* maxFeePerGas = 2 * maxPriorityFeePerGas + 1.05 * baseFee, truncated, with the
\* maxPriorityFeePerGas of that dictionary and the base fee of the latest block.
C7_MaxFeeFromStoredPriorityFee ==
    (Completed /\ Eip1559)
        => tx_params["maxFeePerGas"] =
              ((2 * tx_params["maxPriorityFeePerGas"]) * Hundred
                   + base_fee[1] * BaseFeeFactor) \div Hundred

\* C8: when the node has no value for the base fee or for the priority-fee
\* quote, completion on an EIP-1559 network fails with GasValueObtaining and no
\* other error. (In the positions "fee" and "max_fee" of an EIP-1559 completion
\* the only failure is an answer without a value.)
C8_GasValueObtainingRaised ==
    [][(Eip1559 /\ tx_pc \in {"fee", "max_fee"} /\ tx_pc' = "raised")
           => tx_error' = "GasValueObtaining"]_vars

\* C15: auto_add_params sets chainId to the network's chain id when the caller
\* did not supply one, and leaves a caller-supplied chainId unchanged.
C15_ChainIdDefaulted ==
    Completed
        => tx_params["chainId"] =
              IF Has(input_params, "chainId") THEN input_params["chainId"]
              ELSE network.chain_id

\* a completion that kept a caller's chainId different from the network's
C15_Witness ==
    /\ Completed
    /\ Has(input_params, "chainId")
    /\ tx_params["chainId"] = input_params["chainId"]
    /\ tx_params["chainId"] # network.chain_id

\* C20: on an EIP-1559 network every returned dictionary satisfies
\* maxFeePerGas >= maxPriorityFeePerGas, for every sequence of priority-fee
\* quotes and base fees the node answers during the completion.
C20_MaxFeeCoversPriorityFee ==
    (Completed /\ Eip1559)
        => tx_params["maxFeePerGas"] >= tx_params["maxPriorityFeePerGas"]

----------------------------------------------------------------------------
(* Claims about sign_and_send_transaction *)

\* C10: a call of sign_and_send_transaction makes at most one
\* send_raw_transaction request; when completion, signing or submission fails
\* the error reaches the caller and no Tx object is returned; the node never
\* holds more raw transactions than calls were made.
C10_SubmittedAtMostOnce ==
    /\ submissions <= 1
    /\ Len(node_pool) <= calls
    /\ tx_pc = "raised" => (tx_error # "none" /\ tx_result = <<>>)
    /\ tx_result # <<>> => (tx_pc = "returned" /\ submissions = 1)

\* a submission the node rejected: the error is with the caller after one
\* request
C10_Witness ==
    /\ op = "sign_and_send_transaction"
    /\ tx_pc = "raised"
    /\ tx_error = "ValueError"
    /\ submissions = 1

\* estimate_gas is about to be requested with tx_params
EstimatePending == tx_pc = "gas"

\* the estimate is stored: auto_add_params is returning or has returned
EstimateStored == op # "none" /\ tx_pc \in {"sign", "send", "returned"}

\* C18: estimate_gas is requested only with chainId, nonce, from and the fee
\* fields of the network's fee model present; once the estimate is stored in
\* 'gas' the dictionary is not changed again within the call; signing comes
\* after completion and sending after signing, and what is sent is the
\* signature of exactly the completed dictionary.
C18_GasEstimatedLast ==
    /\ [](EstimatePending
            => ({"chainId", "nonce", "from"} \cup FeeFields) \subseteq DOMAIN tx_params)
    /\ [](EstimateStored => RequiredFields \subseteq DOMAIN tx_params)
    /\ [][(EstimateStored /\ tx_pc' # "idle") => tx_params' = tx_params]_vars
    /\ [](signed_tx # <<>> => (tx_pc \in {"send", "returned", "raised"}
                                 /\ signed_tx[1] = tx_params))
    /\ [](submissions > 0 => signed_tx # <<>>)
    /\ [](tx_result # <<>> => tx_result[1].params = signed_tx[1])

\* a transaction was sent: its signed dictionary is the completed one, with
\* the gas estimate in it
C18_Witness ==
    /\ op = "sign_and_send_transaction"
    /\ tx_pc = "returned"
    /\ submissions = 1
    /\ signed_tx = <<tx_params>>
    /\ ~Has(input_params, "gas")
    /\ tx_params["gas"] \in GasEstimates

\* the nonces of the transactions the client submitted so far
SubmittedNonces == {node_pool[k] : k \in 1..Len(node_pool)}

\* C19: over a sequence of sign_and_send_transaction calls of one client for one
\* account, every transaction handed to send_raw_transaction carries a nonce
\* strictly greater than the nonce of every transaction the client submitted
\* before, mined or not.
C19_NoncesIncrease ==
    [][(tx_pc = "send" /\ submissions' = submissions + 1)
          => \A earlier \in SubmittedNonces : earlier < signed_tx[1]["nonce"]]_vars

----------------------------------------------------------------------------
(* Claims about approve_token_spending *)

\* approve_token_spending has signed its transaction
ApproveSigned == op = "approve_token_spending" /\ signed_tx # <<>>

\* the value of a gas limit that was given
GivenGasLimit == TokenAmount_Wei(TokenAmount__init__(IntAmount(CallerGasLimit), 0, TRUE))

\* C13: when gas_limit is given, the 'gas' field of the transaction that is
\* signed and sent is that limit; the network's estimate is used for 'gas'
\* only when no gas_limit was given.
C13_GasLimitHonoured ==
    ApproveSigned
        => IF approve_args[1].gas_limit.kind # "None"
           THEN signed_tx[1]["gas"] = GivenGasLimit
           ELSE signed_tx[1]["gas"] \in GasEstimates

\* a human number scaled by 10^decimals
Scaled(x, decimals) == (x.num * 10 ^ decimals) \div (10 ^ x.exp)

\* C14: the infinite amount is approved only when no amount is given; a given
\* amount, 0 too, is approved converted to the token's smallest unit: a number
\* scaled by 10^decimals of the token, a TokenAmount by its Wei.
C14_InfiniteOnlyWithoutAmount ==
    ApproveSigned
        => signed_tx[1]["data"].amount =
              CASE approve_args[1].amount.kind = "None" -> InfinityInt
                [] approve_args[1].amount.kind = "number" ->
                      Uint(Scaled(approve_args[1].amount.value[1], approve_args[1].decimals))
                [] OTHER -> Uint(TokenAmount_Wei(approve_args[1].amount.value[1]))

\* the k-th argument is a tuple, and so are its members that begin with '('
IsTupleMember(t) == Len(t) > 0 /\ t[1] = LPAREN
HasNestedTuple(a) == a.is_tuple /\ \E k \in 1..Len(a.types) : IsTupleMember(a.types[k])
TupleArgs == {k \in 1..Len(shape.args) : shape.args[k].is_tuple}

\* several tuple arguments, or a tuple inside a tuple
SeveralTuples ==
    \/ Cardinality(TupleArgs) >= 2
    \/ \E k \in 1..Len(shape.args) : HasNestedTuple(shape.args[k])

\* the components of a tuple argument from its own member list: a member that
\* is itself a tuple is of type tuple
OwnComponents(a) ==
    [k \in 1..Len(a.types) |->
        [type |-> IF IsTupleMember(a.types[k]) THEN TupleWord ELSE a.types[k],
         has_components |-> FALSE, components |-> <<>>]]

\* C17: for a text with several tuple arguments, consecutive or nested, every
\* top-level tuple argument appears in inputs as type tuple with the components
\* of its own member list, the i-th tuple input with the i-th recorded list;
\* no tuple input is left without components and no recorded list is taken
\* beyond those recorded (the parse does not end in IndexError).
C17_EveryTupleWithOwnComponents ==
    (ParseEnded /\ SeveralTuples)
        => /\ parse_pc = "returned"
           /\ Len(function.abi.inputs) = Len(shape.args)
           /\ \A k \in TupleArgs :
                 /\ function.abi.inputs[k].type = TupleWord
                 /\ function.abi.inputs[k].has_components
                 /\ [j \in 1..Len(function.abi.inputs[k].components) |->
                        [type |-> function.abi.inputs[k].components[j].type,
                         has_components |-> FALSE, components |-> <<>>]]
                       = OwnComponents(shape.args[k])
           /\ Cardinality(TupleArgs) <= Len(tuples)

\* C16: parsing terminates for every text: every iteration of the extraction
\* loop, which runs while the remainder contains '(', removes at least one '('
\* from the remainder.
C16_EveryIterationRemovesParen ==
    [][(parse_pc = "extract" /\ tuples' # tuples)
          => Count(sign', LPAREN) < Count(sign, LPAREN)]_vars

----------------------------------------------------------------------------
(* Claims about get_signature *)

\* the request failed, or the response lacks 'results', or a result lacks
\* created_at or text_signature
LookupFailed ==
    \/ response[1].kind # "results"
    \/ \E k \in 1..Len(response[1].results) :
          \/ response[1].results[k].created_at = <<>>
          \/ response[1].results[k].text_signature = <<>>

\* l is the text signatures of all of results, in an order of ascending
\* created_at
AscendingTextSignatures(l, results) ==
    /\ Len(l) = Len(results)
    /\ \E f \in [1..Len(results) -> 1..Len(results)] :
          /\ \A i, j \in 1..Len(results) : i # j => f[i] # f[j]
          /\ \A i \in 1..Len(results) : l[i] = results[f[i]].text_signature[1]
          /\ \A i, j \in 1..Len(results) :
                i < j => results[f[i]].created_at[1] <= results[f[j]].created_at[1]

----------------------------------------------------------------------------
(* Claims about TokenAmount *)

\* the object in hand is the one built from the human amount
FirstLeg == given # <<>> /\ ~given[1].wei /\ token_amount # <<>> /\ ~token_amount[1].wei

\* the object in hand is the one built back from the Wei of the human amount
WayBack == given # <<>> /\ ~given[1].wei /\ token_amount # <<>> /\ token_amount[1].wei

\* the human amount has at most 'decimals' fractional digits
FitsDecimals == given[1].amount.exp <= given[1].decimals

\* C12: for a non-negative human amount x with at most 'decimals' fractional
\* digits, TokenAmount(x, decimals).Wei is the integer x * 10^decimals, and
\* TokenAmount(that integer, decimals, wei=True).Ether is x again; for a value
\* built with wei=True, Wei is the value itself.
C12_RoundTrip ==
    /\ (FirstLeg /\ FitsDecimals /\ Wei_read # <<>>)
          => Wei_read[1] * 10 ^ given[1].amount.exp
                = given[1].amount.num * 10 ^ given[1].decimals
    /\ (WayBack /\ FitsDecimals /\ Ether_read # <<>>)
          => /\ Ether_read[1].err = 0
             /\ Ether_read[1].num * 10 ^ given[1].amount.exp
                   = given[1].amount.num * 10 ^ Ether_read[1].exp
    /\ (given # <<>> /\ given[1].wei /\ Wei_read # <<>>)
          => Wei_read[1] = given[1].amount.num

----------------------------------------------------------------------------
(* Bounds of the receipt wait, in tenths of a second *)

MaxTimeout == 4
MaxPollLatency == 2

----------------------------------------------------------------------------
(* Tx.wait_for_receipt and Transaction.wait_for_receipt *)

\* the defaults of both signatures: timeout 120 s, poll_latency 0.1 s
DefaultTimeout == 1200
DefaultPollLatency == 1

Timeouts == 1..MaxTimeout \cup {DefaultTimeout}
PollLatencies == 1..MaxPollLatency \cup {DefaultPollLatency}

NoWait ==
    /\ wait_pc = "idle"
    /\ wait_via_tx = FALSE
    /\ timeout = <<>>
    /\ poll_latency = DefaultPollLatency
    /\ elapsed = 0
    /\ polls = 0
    /\ node_receipt = <<>>
    /\ wait_result = <<>>
    /\ tx_receipt = <<>>
    /\ wait_error = "none"

\* the call reaches wait_for_transaction_receipt of the node client with the
\* deadline d and the latency l
BeginWait(via_tx, d, l) ==
    /\ wait_pc = "idle"
    /\ wait_via_tx' = via_tx
    /\ timeout' = d
    /\ poll_latency' = l
    /\ wait_pc' = "poll"
    /\ UNCHANGED <<parser_vars, tx_vars, approve_vars, amount_vars, signature_vars,
                   elapsed, polls, node_receipt, wait_result,
                   tx_receipt, wait_error>>

\* Transaction.wait_for_receipt with its timeout left out of the request to the
\* node client
Transaction_wait_for_receipt_NoDeadline(via_tx, t, l) == BeginWait(via_tx, <<>>, l)

\* Transaction.wait_for_receipt, lines 278 to 280: timeout and poll_latency are
\* handed on to wait_for_transaction_receipt
Transaction_wait_for_receipt(via_tx, t, l) == BeginWait(via_tx, <<t>>, l)

\* a caller calls Transaction.wait_for_receipt
CallTransactionWaitForReceipt ==
    \E t \in Timeouts, l \in PollLatencies : Transaction_wait_for_receipt(FALSE, t, l)

\* a caller calls Tx.wait_for_receipt, lines 67 to 69, which hands its timeout
\* and poll_latency on to Transaction.wait_for_receipt
CallTxWaitForReceipt ==
    \E t \in Timeouts, l \in PollLatencies : Transaction_wait_for_receipt(TRUE, t, l)

\* the wait returns the receipt r: dict(...) at line 278, and for a call
\* through Tx the assignment of self.receipt at line 67
ReturnReceipt(r) ==
    /\ wait_result' = <<r>>
    /\ tx_receipt' = IF wait_via_tx THEN <<r>> ELSE tx_receipt
    /\ wait_pc' = "returned"

\* the node client asks the node for the receipt: it ends the wait when the
\* node has one, and sleeps for poll_latency otherwise (without a deadline
\* neither the requests nor the time are counted)
PollReceipt ==
    /\ wait_pc = "poll"
    /\ polls' = IF timeout = <<>> THEN polls ELSE polls + 1
    /\ IF node_receipt # <<>>
       THEN ReturnReceipt(node_receipt[1])
       ELSE /\ wait_pc' = "sleep"
            /\ UNCHANGED <<wait_result, tx_receipt>>
    /\ UNCHANGED <<parser_vars, tx_vars, approve_vars, amount_vars, signature_vars,
                   wait_via_tx, timeout, poll_latency, elapsed,
                   node_receipt, wait_error>>

\* the sleep between two polls: the deadline, when there is one, ends the wait
\* with the receipt-timeout error (web3's TimeExhausted) as soon as it is reached
Sleep ==
    /\ wait_pc = "sleep"
    /\ IF timeout # <<>> /\ elapsed + poll_latency >= timeout[1]
       THEN /\ elapsed' = timeout[1]
            /\ wait_pc' = "raised"
            /\ wait_error' = "TimeExhausted"
       ELSE /\ elapsed' = IF timeout = <<>> THEN elapsed ELSE elapsed + poll_latency
            /\ wait_pc' = "poll"
            /\ UNCHANGED wait_error
    /\ UNCHANGED <<parser_vars, tx_vars, approve_vars, amount_vars, signature_vars,
                   wait_via_tx, timeout, poll_latency, polls,
                   node_receipt, wait_result, tx_receipt>>

\* the transaction is mined: the node has its receipt from now on
NodeGetsReceipt ==
    /\ wait_pc \in {"poll", "sleep"}
    /\ node_receipt = <<>>
    /\ node_receipt' = <<[status |-> 1, mined_after |-> elapsed]>>
    /\ UNCHANGED <<parser_vars, tx_vars, approve_vars, amount_vars, signature_vars,
                   wait_pc, wait_via_tx, timeout, poll_latency,
                   elapsed, polls, wait_result, tx_receipt, wait_error>>

NextWait ==
    \/ CallTransactionWaitForReceipt
    \/ CallTxWaitForReceipt
    \/ PollReceipt
    \/ Sleep
    \/ NodeGetsReceipt

----------------------------------------------------------------------------
(* Claims about the receipt wait *)

WaitEnded == wait_pc \in {"returned", "raised"}

----------------------------------------------------------------------------
(* Specifications *)

\* the parser at rest
NoParse ==
    /\ text_signature = <<>>
    /\ shape = [name |-> <<>>, args |-> <<>>]
    /\ parse_pc = "idle"
    /\ name = <<>>
    /\ sign = <<>>
    /\ tuples = <<>>
    /\ function = NoFunction

\* no call of the transaction methods is made
NoTx ==
    /\ network = Goerli
    /\ tx_count = 0
    /\ node_pool = <<>>
    /\ calls = 0
    /\ NoCall

\* no TokenAmount object is built
NoAmount ==
    /\ given = <<>>
    /\ token_amount = <<>>
    /\ Wei_read = <<>>
    /\ Ether_read = <<>>

\* no call of get_signature is made
NoLookup ==
    /\ sig_pc = "idle"
    /\ response = <<>>
    /\ sig_result = <<>>

InitSpecParser == InitParser /\ NoTx /\ NoWait /\ NoAmount /\ NoLookup

InitSpecTuples == InitTuples /\ NoTx /\ NoWait /\ NoAmount /\ NoLookup

InitSpecAnyText == InitAnyText /\ NoTx /\ NoWait /\ NoAmount /\ NoLookup

InitSpecTx == InitTx /\ NoParse /\ NoWait /\ NoAmount /\ NoLookup

InitSpecWait == NoWait /\ NoParse /\ NoTx /\ NoAmount /\ NoLookup

InitSpecAmount == NoAmount /\ NoParse /\ NoTx /\ NoWait /\ NoLookup

InitSpecSignature == NoLookup /\ NoParse /\ NoTx /\ NoWait /\ NoAmount

SpecParser == InitSpecParser /\ [][NextParser]_vars

SpecTuples == InitSpecTuples /\ [][NextParser]_vars

SpecAnyText == InitSpecAnyText /\ [][NextParser]_vars

SpecTx == InitSpecTx /\ [][NextTx]_vars

SpecSends == InitSpecTx /\ [][NextSends]_vars

SpecApprove == InitSpecTx /\ [][NextApprove]_vars

SpecAmount == InitSpecAmount /\ [][NextAmount]_vars

SpecSignature == InitSpecSignature /\ [][NextSignature]_vars

\* the event loop runs the waiting coroutine whenever it can take a step: a
\* request to the node is answered, a sleep ends
SpecWait ==
    InitSpecWait /\ [][NextWait]_vars /\ WF_vars(PollReceipt) /\ WF_vars(Sleep)

====
